---- MODULE Spec2Model ----
(***************************************************************************)
(* A model of camply's GoingToCamp provider and search:                    *)
(*   camply/providers/going_to_camp/going_to_camp_provider.py              *)
(*   camply/search/search_going_to_camp.py                                 *)
(* Each component is a state machine over its own variables; the           *)
(* specifications at the end of each section run one component while the   *)
(* variables of the others stay idle.                                      *)
(***************************************************************************)
EXTENDS Integers, Sequences, FiniteSets, TLC

VARIABLES
    \* ---- _find_matching_resources (the map-graph resolver) ----
    mapData,        \* the MAPDATA endpoint: map id -> its JSON answer
    facilityMapId,  \* campground.map_id, the map the outermost call starts at
    searchFilter,   \* search_filter["mapId"], the dict shared by all the calls
    stack,          \* the call chain: one frame per active call
    rpc,            \* position of the resolver
    resources,      \* what the outermost call returned
    rerror,         \* the exception that ended the resolver, or "none"
    \* ---- list_equipment_categories / _get_equipment_category ----
    equipmentListing, \* the LIST_EQUIPMENT endpoint: results[0]["subEquipmentCategories"]
    ourEquipment,     \* equipment[0], the caller's (name, length)
    subCategories,    \* what list_equipment_categories returned
    equipment,        \* self.equipment, the matching category id
    epc,              \* position of the matcher
    eerror,           \* the exception that ended the matcher, or "none"
    \* ---- _filter_facilities_responses ----
    facilities,          \* the LIST_CAMPGROUNDS answer handed to the filter
    facil,               \* index of the entry the for loop is at
    filtered_facilities, \* the ResourceLocations kept so far
    fpc,                 \* position of the filter
    ferror,              \* the exception that ended the filter, or "none"
    \* ---- SearchGoingToCamp.__init__ ----
    recreation_area,     \* the recreation_area argument (Optional list of ids)
    campsites,           \* the campsites argument (Optional list of ids)
    campground_object,   \* the campgrounds argument (Optional list of id strings)
    equipment_arg,       \* equipment[0], the caller's (name, length)
    self_campgrounds,    \* self.campgrounds, once resolved (Optional)
    self_equipment,      \* self.equipment, once resolved (Optional)
    path,                \* the lookup that resolved the facility set
    cpc,                 \* position of the constructor
    proc,                \* the process: "running", or "exited" by exit(1)
    cerror,              \* the exception that ended the constructor, or "none"
    \* ---- get_all_campsites, on a constructed SearchGoingToCamp ----
    rec_area_ids,        \* self._recreation_area_id
    campgrounds,         \* self.campgrounds
    search_window,       \* self.search_window[0]: start_date and end_date
    weekends_only,       \* self.weekends_only
    nights,              \* the minimum night count the caller asked for
    campground,          \* index of the campground the outer loop is at
    site_resources,      \* what the resolver returned for that campground
    sites,               \* what list_site_availability returned for it
    site,                \* index of the site the inner loop is at
    available_sites,     \* the AvailableCampsite records of the current list
    returned,            \* what get_all_campsites returned (Optional)
    spc,                 \* position of get_all_campsites
    serror,              \* the exception that ended it, or "none"
    \* ---- fetch_nested_key ----
    obj,                 \* the structure looked into
    keys,                \* the path of keys and indices
    element,             \* _element: the value the loop is at
    key_i,               \* position of the loop in keys
    npc,                 \* position of fetch_nested_key
    nresult,             \* the value returned (Optional)
    nerror,              \* the exception raised, or "none"
    \* ---- get_site_details, on one GoingToCampProvider ----
    attribute_details,   \* self._attribute_details (Optional: absent until set)
    site_request,        \* the arguments of the last call (Optional)
    site_details,        \* what the last call returned (Optional)
    dcalls,              \* the number of calls made
    derror               \* the exception the last call raised, or "none"

resolverVars == <<mapData, facilityMapId, searchFilter, stack, rpc, resources, rerror>>
equipmentVars == <<equipmentListing, ourEquipment, subCategories, equipment, epc, eerror>>
filterVars == <<facilities, facil, filtered_facilities, fpc, ferror>>
initVars == <<recreation_area, campsites, campground_object, equipment_arg,
              self_campgrounds, self_equipment, path, cpc, proc, cerror>>

searchVars == <<rec_area_ids, campgrounds, search_window, weekends_only, nights,
                campground, site_resources, sites, site, available_sites, returned, spc, serror>>

nestedVars == <<obj, keys, element, key_i, npc, nresult, nerror>>

detailCallVars == <<site_request, site_details, dcalls, derror>>

detailVars == <<attribute_details, detailCallVars>>

vars == <<resolverVars, equipmentVars, filterVars, initVars, searchVars, nestedVars,
          detailVars>>

\* what the actions of one component leave alone
exceptResolver == <<equipmentVars, filterVars, initVars, searchVars, nestedVars, detailVars>>
exceptEquipment == <<resolverVars, filterVars, initVars, searchVars, nestedVars, detailVars>>
exceptFilter == <<resolverVars, equipmentVars, initVars, searchVars, nestedVars, detailVars>>
exceptInit == <<resolverVars, equipmentVars, filterVars, searchVars, nestedVars, detailVars>>
exceptSearch == <<resolverVars, equipmentVars, filterVars, initVars, nestedVars, detailCallVars>>
exceptDetails == <<resolverVars, equipmentVars, filterVars, initVars, searchVars, nestedVars>>
exceptNested == <<resolverVars, equipmentVars, filterVars, initVars, searchVars, detailVars>>

None == "None"

\* Optional values: None is <<>>, the value v is <<v>>
Absent == <<>>
Some(v) == <<v>>
IsNone(o) == o = <<>>
Value(o) == o[1]

\* x in list
InList(x, list) == \E i \in 1..Len(list) : list[i] = x

\* the state of a component that a specification does not run
IdleResolver ==
    /\ mapData = <<>>
    /\ facilityMapId = None
    /\ searchFilter = None
    /\ stack = <<>>
    /\ rpc = "idle"
    /\ resources = <<>>
    /\ rerror = "none"

IdleEquipment ==
    /\ equipmentListing = <<>>
    /\ ourEquipment = <<>>
    /\ subCategories = <<>>
    /\ equipment = None
    /\ epc = "idle"
    /\ eerror = "none"

IdleFilter ==
    /\ facilities = <<>>
    /\ facil = 0
    /\ filtered_facilities = <<>>
    /\ fpc = "idle"
    /\ ferror = "none"

IdleInit ==
    /\ recreation_area = <<>>
    /\ campsites = <<>>
    /\ campground_object = <<>>
    /\ equipment_arg = <<>>
    /\ self_campgrounds = <<>>
    /\ self_equipment = <<>>
    /\ path = "none"
    /\ cpc = "idle"
    /\ proc = "running"
    /\ cerror = "none"

IdleSearch ==
    /\ rec_area_ids = <<>>
    /\ campgrounds = <<>>
    /\ search_window = <<>>
    /\ weekends_only = FALSE
    /\ nights = 0
    /\ campground = 0
    /\ site_resources = <<>>
    /\ sites = <<>>
    /\ site = 0
    /\ available_sites = <<>>
    /\ returned = <<>>
    /\ spc = "idle"
    /\ serror = "none"

\* a nested value: a dict (items with keys), a list (items without keys), a
\* str (its characters), an int or None
NestedValue(t, items, n, str) == [t |-> t, items |-> items, n |-> n, s |-> str]
VNone == NestedValue("none", <<>>, 0, <<>>)

IdleNested ==
    /\ obj = VNone
    /\ keys = <<>>
    /\ element = VNone
    /\ key_i = 0
    /\ npc = "idle"
    /\ nresult = <<>>
    /\ nerror = "none"

IdleDetailCalls ==
    /\ site_request = <<>>
    /\ site_details = <<>>
    /\ dcalls = 0
    /\ derror = "none"

IdleDetails == attribute_details = <<>> /\ IdleDetailCalls

IdleExceptResolver == IdleEquipment /\ IdleFilter /\ IdleInit /\ IdleSearch /\ IdleNested /\ IdleDetails
IdleExceptEquipment == IdleResolver /\ IdleFilter /\ IdleInit /\ IdleSearch /\ IdleNested /\ IdleDetails
IdleExceptFilter == IdleResolver /\ IdleEquipment /\ IdleInit /\ IdleSearch /\ IdleNested /\ IdleDetails
IdleExceptInit == IdleResolver /\ IdleEquipment /\ IdleFilter /\ IdleSearch /\ IdleNested /\ IdleDetails
IdleExceptSearch == IdleResolver /\ IdleEquipment /\ IdleFilter /\ IdleInit /\ IdleNested /\ IdleDetailCalls
IdleExceptDetails ==
    IdleResolver /\ IdleEquipment /\ IdleFilter /\ IdleInit /\ IdleSearch /\ IdleNested
IdleExceptNested == IdleResolver /\ IdleEquipment /\ IdleFilter /\ IdleInit /\ IdleSearch /\ IdleDetails

(***************************************************************************)
(* Python dicts, as the sequence of their items in insertion order.        *)
(***************************************************************************)
Min(S) == CHOOSE x \in S : \A y \in S : x <= y
Max(S) == CHOOSE x \in S : \A y \in S : x >= y

EmptyDict == <<>>

Keys(d) == {d[i].key : i \in 1..Len(d)}

\* d[key]
DictGet(d, key) == d[CHOOSE i \in 1..Len(d) : d[i].key = key].value

\* d[key] = value: an existing key keeps its place and takes the new value
DictSet(d, key, value) ==
    IF \E i \in 1..Len(d) : d[i].key = key
    THEN [i \in 1..Len(d) |-> IF d[i].key = key THEN [d[i] EXCEPT !.value = value] ELSE d[i]]
    ELSE Append(d, [key |-> key, value |-> value])

\* d.setdefault(key, value): an existing key keeps its value
DictSetDefault(d, key, value) ==
    IF key \in Keys(d) THEN d ELSE Append(d, [key |-> key, value |-> value])

\* a merge in which a key already present keeps its value
DictUpdateKeepFirst(a, b) ==
    LET acc[i \in 0..Len(b)] ==
            IF i = 0 THEN a ELSE DictSetDefault(acc[i - 1], b[i].key, b[i].value)
    IN  acc[Len(b)]

\* a merge that forgets the other dict's items
DictUpdateDropped(a, b) == a

\* a.update(b): every item of b is stored, overwriting equal keys
DictUpdate(a, b) ==
    LET acc[i \in 0..Len(b)] ==
            IF i = 0 THEN a ELSE DictSet(acc[i - 1], b[i].key, b[i].value)
    IN  acc[Len(b)]

\* the elements of a set of integers, in ascending order
RECURSIVE Ascending(_)
Ascending(S) == IF S = {} THEN <<>> ELSE <<Min(S)>> \o Ascending(S \ {Min(S)})

(***************************************************************************)
(* The map graph served by the MAPDATA endpoint.                           *)
(***************************************************************************)
Maps == {10, 11, 12}
FacilityMaps == {10}
Resources == {1, 2}

\* the depth at which the interpreter stops a runaway recursion
MaxDepth == 4

\* the keys of "mapLinkAvailabilities", in the order the answer lists them
ChildLists ==
    {<<>>} \cup {<<a>> : a \in Maps}
           \cup {c \in {<<a, b>> : a \in Maps, b \in Maps} : c[1] # c[2]}

\* "resourceAvailabilities" of map m: resource id -> its availability entries
\* (an entry is modelled by its "availability" code).  In the resolver's own
\* specification every map reports the resources it lists under its own code,
\* so the origin of an entry can be read off the merged result.
ResourceDict(m, listed) ==
    LET ids == Ascending(listed)
    IN  [i \in 1..Len(ids) |-> [key |-> ids[i], value |-> <<m - 10>>]]

MapAnswer(d, c) == [resourceAvailabilities |-> d, mapLinkAvailabilities |-> c]

\* self._api_request(rec_area_id, "MAPDATA", search_filter)
ApiRequestMapData(mapId) == mapData[mapId]

(***************************************************************************)
(* _find_matching_resources, one step at a time.                           *)
(*   rpc = "call" : a call was made, its body has not started              *)
(*   rpc = "loop" : the innermost call is at the head of its for loop      *)
(*   rpc = "done" : the outermost call returned `resources`                *)
(*   rpc = "raised" : an exception unwound the whole call chain            *)
(***************************************************************************)
Top == stack[Len(stack)]

Pop(s) == SubSeq(s, 1, Len(s) - 1)

\* lines 380-381: request the map named by the filter, take its resources
FindMatchingResources_Enter ==
    /\ rpc = "call"
    /\ Len(stack) < MaxDepth
    /\ LET results == ApiRequestMapData(searchFilter)
       IN  stack' = Append(stack,
                [mapId |-> searchFilter,
                 availabilities |-> results.resourceAvailabilities,
                 links |-> results.mapLinkAvailabilities,
                 i |-> 1])
    /\ rpc' = "loop"
    /\ UNCHANGED <<mapData, facilityMapId, searchFilter, resources, rerror>>
    /\ UNCHANGED exceptResolver

\* the interpreter's recursion limit: the only thing that stops a cyclic graph
FindMatchingResources_RecursionError ==
    /\ rpc = "call"
    /\ Len(stack) >= MaxDepth
    /\ rpc' = "raised"
    /\ rerror' = "RecursionError"
    /\ stack' = <<>>
    /\ UNCHANGED <<mapData, facilityMapId, searchFilter, resources>>
    /\ UNCHANGED exceptResolver

\* lines 383-386: next child map: overwrite the filter's mapId and recurse
FindMatchingResources_Descend ==
    /\ rpc = "loop"
    /\ Top.i <= Len(Top.links)
    /\ searchFilter' = Top.links[Top.i]
    /\ rpc' = "call"
    /\ UNCHANGED <<mapData, facilityMapId, stack, resources, rerror>>
    /\ UNCHANGED exceptResolver

\* line 389 in a nested call, then lines 385-387 in its caller
FindMatchingResources_ReturnToCaller ==
    /\ rpc = "loop"
    /\ Top.i > Len(Top.links)
    /\ Len(stack) > 1
    /\ LET caller == stack[Len(stack) - 1]
           merged == [caller EXCEPT
                        !.availabilities = DictUpdate(@, Top.availabilities),
                        !.i = @ + 1]
       IN  stack' = [Pop(stack) EXCEPT ![Len(stack) - 1] = merged]
    /\ UNCHANGED <<mapData, facilityMapId, searchFilter, rpc, resources, rerror>>
    /\ UNCHANGED exceptResolver

\* line 389 in the outermost call
FindMatchingResources_Return ==
    /\ rpc = "loop"
    /\ Top.i > Len(Top.links)
    /\ Len(stack) = 1
    /\ resources' = Top.availabilities
    /\ stack' = <<>>
    /\ rpc' = "done"
    /\ UNCHANGED <<mapData, facilityMapId, searchFilter, rerror>>
    /\ UNCHANGED exceptResolver

(***************************************************************************)
(* The map graph as a graph, for stating what the resolver should return.  *)
(***************************************************************************)
ChildSet(m) ==
    {mapData[m].mapLinkAvailabilities[i] :
        i \in 1..Len(mapData[m].mapLinkAvailabilities)}

RECURSIVE Closure(_, _)
Closure(S, n) ==
    IF n = 0 THEN S ELSE Closure(S \cup UNION {ChildSet(m) : m \in S}, n - 1)

\* the maps reachable from m through child-map links, m included
Reachable(m) == Closure({m}, Cardinality(Maps))

\* the maps reachable from m through at least one link
Descendants(m) == Closure(ChildSet(m), Cardinality(Maps))

\* no map reachable from the facility's map is reachable from itself
Acyclic == \A m \in Reachable(facilityMapId) : m \notin Descendants(m)

\* the maps in the order an acyclic traversal requests them: a map, then the
\* subtree of each of its children in listing order
RECURSIVE Preorder(_, _)
Preorder(m, fuel) ==
    LET links == mapData[m].mapLinkAvailabilities
        sub[i \in 0..Len(links)] ==
            IF i = 0 THEN <<>> ELSE sub[i - 1] \o Preorder(links[i], fuel - 1)
    IN  IF fuel = 0 THEN <<>> ELSE <<m>> \o sub[Len(links)]

Traversal == Preorder(facilityMapId, Cardinality(Maps))

Lists(m, r) == r \in Keys(mapData[m].resourceAvailabilities)

\* positions of the traversal at which resource r is listed
Occurrences(r) == {i \in 1..Len(Traversal) : Lists(Traversal[i], r)}

EntryAt(i, r) == DictGet(mapData[Traversal[i]].resourceAvailabilities, r)

\* C1: on an acyclic map graph the resolver returns a mapping whose keys are
\* exactly the resource ids listed by the maps reachable from the facility's map.
C1_KeysAreReachableResources ==
    (rpc = "done" /\ Acyclic) =>
        /\ Keys(resources) =
            UNION {Keys(mapData[m].resourceAvailabilities) :
                      m \in Reachable(facilityMapId)}
        /\ \A i, j \in 1..Len(resources) :
              resources[i].key = resources[j].key => i = j

\* map 10 lists one resource, its child's child lists another, both are returned
C1_Witness ==
    /\ rpc = "done"
    /\ Keys(mapData[10].resourceAvailabilities) = {1}
    /\ mapData[10].mapLinkAvailabilities = <<11>>
    /\ Keys(mapData[11].resourceAvailabilities) = {}
    /\ mapData[11].mapLinkAvailabilities = <<12>>
    /\ Keys(mapData[12].resourceAvailabilities) = {2}
    /\ mapData[12].mapLinkAvailabilities = <<>>
    /\ Keys(resources) = {1, 2}

ChainMaps == {stack[i].mapId : i \in 1..Len(stack)}

\* C3: the resolver never descends into a map already in the current call
\* chain, and a cyclic graph ends it with CyclicResourceGraph.
C3_NoRedescentIntoCallChain ==
    /\ rpc = "call" => searchFilter \notin ChainMaps
    /\ rpc = "raised" => rerror = "CyclicResourceGraph"

InitResolver ==
    /\ \E listed \in [Maps -> SUBSET Resources], links \in [Maps -> ChildLists] :
            mapData = [m \in Maps |-> MapAnswer(ResourceDict(m, listed[m]), links[m])]
    /\ facilityMapId \in FacilityMaps
    /\ searchFilter = facilityMapId
    /\ stack = <<>>
    /\ rpc = "call"
    /\ resources = EmptyDict
    /\ rerror = "none"
    /\ IdleExceptResolver

NextResolver ==
    \/ FindMatchingResources_Enter
    \/ FindMatchingResources_RecursionError
    \/ FindMatchingResources_Descend
    \/ FindMatchingResources_ReturnToCaller
    \/ FindMatchingResources_Return

SpecResolver == InitResolver /\ [][NextResolver]_vars

(***************************************************************************)
(* Python str, as a sequence of one-character strings.                     *)
(***************************************************************************)
UpperCase ==
    <<"A", "B", "C", "D", "E", "F", "G", "H", "I", "J", "K", "L", "M", "N", "O", "P", "Q", "R", "S", "T", "U", "V", "W", "X", "Y", "Z">>
LowerCase ==
    <<"a", "b", "c", "d", "e", "f", "g", "h", "i", "j", "k", "l", "m", "n", "o", "p", "q", "r", "s", "t", "u", "v", "w", "x", "y", "z">>
DigitChars == <<"0", "1", "2", "3", "4", "5", "6", "7", "8", "9">>

\* the lower-case form of every upper-case letter
LowerOf == [i \in 1..Len(UpperCase) |-> LowerCase[i]]
UpperIndex == [c \in {UpperCase[i] : i \in 1..Len(UpperCase)} |->
                  CHOOSE i \in 1..Len(UpperCase) : UpperCase[i] = c]

LowerChar(c) == IF c \in DOMAIN UpperIndex THEN LowerOf[UpperIndex[c]] ELSE c

\* str.lower()
StrLower(s) == [i \in 1..Len(s) |-> LowerChar(s[i])]

\* str.find(sub): the lowest index at which sub starts, -1 when there is none
StrFind(s, sub) ==
    LET hits == {i \in 0..(Len(s) - Len(sub)) : SubSeq(s, i + 1, i + Len(sub)) = sub}
    IN  IF hits = {} THEN -1 ELSE Min(hits)

\* sub in s
StrIn(sub, s) == StrFind(s, sub) >= 0

\* s.split(" ")[0]
FirstToken(s) ==
    LET spaces == {i \in 1..Len(s) : s[i] = " "}
    IN  IF spaces = {} THEN s ELSE SubSeq(s, 1, Min(spaces) - 1)

IsDigit(c) == \E i \in 1..Len(DigitChars) : DigitChars[i] = c

DigitValue(c) == (CHOOSE i \in 1..Len(DigitChars) : DigitChars[i] = c) - 1

\* int(token) succeeds on a token of decimal digits (the names of the model
\* hold no sign, underscore or blank inside a token)
IsInt(token) == Len(token) > 0 /\ \A i \in 1..Len(token) : IsDigit(token[i])

ToInt(token) ==
    LET v[i \in 0..Len(token)] ==
            IF i = 0 THEN 0 ELSE 10 * v[i - 1] + DigitValue(token[i])
    IN  v[Len(token)]

HasDigit(s) == \E i \in 1..Len(s) : IsDigit(s[i])

\* re.findall(r"\d+", s)[0]: the first maximal run of digits
FirstDigitRun(s) ==
    LET b == Min({i \in 1..Len(s) : IsDigit(s[i])})
        e == Max({j \in b..Len(s) : \A k \in b..j : IsDigit(s[k])})
    IN  SubSeq(s, b, e)

(***************************************************************************)
(* list_equipment_categories: the recreation area's sub equipment          *)
(* categories, keyed by lower-cased display name, in listing order.        *)
(***************************************************************************)
StrTent == <<"t", "e", "n", "t">>
StrUpTo == <<"r", "v", "/", "t", "r", "a", "i", "l", "e", "r", " ", "u", "p", " ", "t", "o">>
StrOver == <<"r", "v", "/", "t", "r", "a", "i", "l", "e", "r", " ", "o", "v", "e", "r">>

\* the max_size given to "rv/trailer over N" categories
OverMaxSize == 1000

\* lines 410-419: the exception the parse of this name raises, or "none"
MaxSizeError(category_name) ==
    IF StrIn(StrTent, category_name) /\ ~IsInt(FirstToken(category_name))
    THEN "ValueError"
    ELSE IF StrIn(StrUpTo, category_name) /\ ~HasDigit(category_name)
    THEN "IndexError"
    ELSE "none"

\* lines 410-419: three independent tests, a later one overriding an earlier
MaxSize(category_name) ==
    LET tent == IF StrIn(StrTent, category_name)
                THEN ToInt(FirstToken(category_name)) ELSE 0
        upto == IF StrIn(StrUpTo, category_name)
                THEN ToInt(FirstDigitRun(category_name)) ELSE tent
    IN  IF StrIn(StrOver, category_name) THEN OverMaxSize ELSE upto

\* line 409: the lower-cased display name of listing entry i
CategoryName(listing, i) == StrLower(listing[i].name)

\* the first exception the loop of lines 406-422 raises, or "none"
ListEquipmentCategoriesError(listing) ==
    LET bad == {i \in 1..Len(listing) : MaxSizeError(CategoryName(listing, i)) # "none"}
    IN  IF bad = {} THEN "none" ELSE MaxSizeError(CategoryName(listing, Min(bad)))

\* lines 403-424
ListEquipmentCategories(listing) ==
    LET acc[i \in 0..Len(listing)] ==
            IF i = 0 THEN <<>>
            ELSE DictSet(acc[i - 1], CategoryName(listing, i),
                         [id |-> listing[i].id,
                          max_size |-> MaxSize(CategoryName(listing, i))])
    IN  acc[Len(listing)]

(***************************************************************************)
(* _get_equipment_category                                                 *)
(***************************************************************************)
\* a size test that compares the wrong way round
AcceptsReversed(eq_name, category, our_equipment_name, our_equipment_length) ==
    /\ StrFind(eq_name, our_equipment_name) > 0
    /\ \/ our_equipment_length = 0
       \/ our_equipment_length > 0 /\ our_equipment_length >= category.max_size

\* lines 87-94: the test one category has to pass
Accepts(eq_name, category, our_equipment_name, our_equipment_length) ==
    /\ StrFind(eq_name, our_equipment_name) > 0
    /\ \/ our_equipment_length = 0
       \/ our_equipment_length > 0 /\ our_equipment_length <= category["max_size"]

\* lines 85-97: the id of the first accepted category, or exit(1)
GetEquipmentCategory(equipment_categories, our_equipment_name, our_equipment_length) ==
    LET hits == {i \in 1..Len(equipment_categories) :
                    Accepts(equipment_categories[i].key, equipment_categories[i].value,
                            our_equipment_name, our_equipment_length)}
    IN  IF hits = {}
        THEN [kind |-> "exit"]
        ELSE [kind |-> "return", category_id |-> equipment_categories[Min(hits)].value.id]

\* the display names and ids the LIST_EQUIPMENT endpoint may answer with
SubEquipmentCategories ==
    { [name |-> <<"1", " ", "T", "e", "n", "t">>, id |-> 5],
      [name |-> <<"R", "V", "/", "T", "r", "a", "i", "l", "e", "r", " ", "u", "p", " ", "t", "o", " ", "2", "0", "'">>, id |-> 6],
      [name |-> <<"R", "V", "/", "T", "r", "a", "i", "l", "e", "r", " ", "o", "v", "e", "r", " ", "4", "0", "'">>, id |-> 7],
      [name |-> <<"T", "e", "n", "t">>, id |-> 9],
      [name |-> <<"1", " ", "t", "e", "n", "t">>, id |-> 10] }

\* the longest listing the endpoint answers with
MaxListing == 3

RECURSIVE SeqsUpTo(_, _)
SeqsUpTo(S, n) ==
    IF n = 0 THEN {<<>>}
    ELSE LET shorter == SeqsUpTo(S, n - 1)
         IN  shorter \cup {Append(q, x) : q \in {p \in shorter : Len(p) = n - 1}, x \in S}

EquipmentNames ==
    { <<"r", "v", "/", "t", "r", "a", "i", "l", "e", "r">>, <<"t", "r", "a", "i", "l", "e", "r">>, <<"t", "e", "n", "t">>, <<"T", "r", "a", "i", "l", "e", "r">> }

\* the lengths a caller passes
EquipmentLengths == {-1, 0, 2, 20, 25, 1001}

\* Optional[int]: None is <<>>, the integer n is <<n>>
NoLength == <<>>
OptionalLengths == {NoLength} \cup {<<n>> : n \in EquipmentLengths}

\* line 80: int(our_equipment_length), for a length that is given
OurLength == ourEquipment.length[1]

\* line 80: int(None)
GetEquipmentCategory_TypeError ==
    /\ epc = "start"
    /\ ourEquipment.length = NoLength
    /\ epc' = "raised"
    /\ eerror' = "TypeError"
    /\ UNCHANGED <<equipmentListing, ourEquipment, subCategories, equipment>>
    /\ UNCHANGED exceptEquipment

\* lines 81-83: list_equipment_categories returns
ListEquipmentCategories_Return ==
    /\ epc = "start"
    /\ ourEquipment.length # NoLength
    /\ ListEquipmentCategoriesError(equipmentListing) = "none"
    /\ subCategories' = ListEquipmentCategories(equipmentListing)
    /\ epc' = "listed"
    /\ UNCHANGED <<equipmentListing, ourEquipment, equipment, eerror>>
    /\ UNCHANGED exceptEquipment

\* lines 81-83: list_equipment_categories raises on a name it cannot parse
ListEquipmentCategories_Raise ==
    /\ epc = "start"
    /\ ourEquipment.length # NoLength
    /\ ListEquipmentCategoriesError(equipmentListing) # "none"
    /\ eerror' = ListEquipmentCategoriesError(equipmentListing)
    /\ epc' = "raised"
    /\ UNCHANGED <<equipmentListing, ourEquipment, subCategories, equipment>>
    /\ UNCHANGED exceptEquipment

\* lines 85-94: a category is accepted
GetEquipmentCategory_Return ==
    /\ epc = "listed"
    /\ LET r == GetEquipmentCategory(subCategories, ourEquipment.name, OurLength)
       IN  /\ r.kind = "return"
           /\ equipment' = r.category_id
    /\ epc' = "matched"
    /\ UNCHANGED <<equipmentListing, ourEquipment, subCategories, eerror>>
    /\ UNCHANGED exceptEquipment

\* lines 96-97: no category is accepted: exit(1)
GetEquipmentCategory_Exit ==
    /\ epc = "listed"
    /\ GetEquipmentCategory(subCategories, ourEquipment.name, OurLength).kind = "exit"
    /\ epc' = "exited"
    /\ UNCHANGED <<equipmentListing, ourEquipment, subCategories, equipment, eerror>>
    /\ UNCHANGED exceptEquipment

\* the matcher ran to its end
MatcherFinished == epc \in {"matched", "exited", "raised"}

\* the categories as listed, for a listing every name of which parses
Listed == ListEquipmentCategories(equipmentListing)

\* the descriptor's name is a case-folded substring of the display name
NameMatches(i) == StrIn(StrLower(ourEquipment.name), Listed[i].key)

\* the length is absent or 0, or no larger than the category's max_size
Fits(i) ==
    \/ ourEquipment.length = NoLength
    \/ OurLength = 0
    \/ OurLength <= Listed[i].value.max_size

FittingCategories == {i \in 1..Len(Listed) : NameMatches(i) /\ Fits(i)}

\* C4: the matcher returns the id of the first category, in listing order,
\* whose display name contains the descriptor's name at any position and
\* which the length fits.
C4_ReturnsFirstFittingCategory ==
    (/\ MatcherFinished
     /\ ListEquipmentCategoriesError(equipmentListing) = "none"
     /\ FittingCategories # {})
        => /\ epc = "matched"
           /\ equipment = Listed[Min(FittingCategories)].value.id

\* the categories known once list_equipment_categories has returned
CategoriesKnown == epc \in {"listed", "matched", "exited"}

AcceptsCategory(i, length) ==
    Accepts(subCategories[i].key, subCategories[i].value, ourEquipment.name, length)

InitEquipment ==
    /\ equipmentListing \in SeqsUpTo(SubEquipmentCategories, MaxListing)
    /\ ourEquipment \in [name : EquipmentNames, length : OptionalLengths]
    /\ subCategories = <<>>
    /\ equipment = None
    /\ epc = "start"
    /\ eerror = "none"
    /\ IdleExceptEquipment

NextEquipment ==
    \/ GetEquipmentCategory_TypeError
    \/ ListEquipmentCategories_Return
    \/ ListEquipmentCategories_Raise
    \/ GetEquipmentCategory_Return
    \/ GetEquipmentCategory_Exit

SpecEquipment == InitEquipment /\ [][NextEquipment]_vars

(***************************************************************************)
(* _filter_facilities_responses                                            *)
(***************************************************************************)
\* the resource category ids the filter looks for
\* -2147483648, written within the range of the checker's integers
CampsiteCategory == -2147483647 - 1
GroupCampCategory == -2147483643

\* the category ids a listing entry may carry: the two above and another one
ResourceCategoryIds == {CampsiteCategory, GroupCampCategory, -2147483647}

\* the longest "resourceCategoryIds" list of an entry
MaxCategories == 2

\* the "resourceCategoryIds" lists: no id twice
CategoryLists ==
    {c \in SeqsUpTo(ResourceCategoryIds, MaxCategories) :
        \A i, j \in 1..Len(c) : c[i] = c[j] => i = j}

\* the entries the LIST_CAMPGROUNDS endpoint may answer with
RawFacilities ==
    [mapId : {10},
     resourceLocationId : {100},
     resourceCategoryIds :
        {Absent} \cup {Some(c) : c \in CategoryLists},
     resourceLocationLocalizedValues : {Absent, Some("Lake Park")}]

\* the longest listing the endpoint answers with
MaxFacilities == 2

\* lines 320-329: the ResourceLocation built from a listing entry
ResourceLocation(entry, rec_area_id) ==
    [ID |-> entry.mapId,
     RecAreaID |-> rec_area_id,
     ResourceCategories |-> entry.resourceCategoryIds,
     ResourceLocationID |-> entry.resourceLocationId,
     ResourceLocationName |-> entry.resourceLocationLocalizedValues]

\* lines 320-334: ResourceLocationName is a required str, the ids and the
\* category list may be None
Validates(facility) == ~IsNone(facility.ResourceLocationName)

\* line 336: not facility.ResourceCategories
NoCategories(facility) ==
    IF IsNone(facility.ResourceCategories)
    THEN TRUE
    ELSE Len(Value(facility.ResourceCategories)) = 0

\* a test that knows the campsite category only
IsReservableCampsiteOnly(facility) ==
    InList(CampsiteCategory, Value(facility.ResourceCategories))

\* lines 341-346
IsReservable(facility) ==
    \/ InList(CampsiteCategory, Value(facility.ResourceCategories))
    \/ InList(GroupCampCategory, Value(facility.ResourceCategories))

CurrentFacility == ResourceLocation(facilities[facil], 1)

\* lines 330-334: the entry does not validate
FilterFacilities_Invalid ==
    /\ fpc = "loop"
    /\ facil <= Len(facilities)
    /\ ~Validates(CurrentFacility)
    /\ fpc' = "raised"
    /\ ferror' = "ProviderSearchError"
    /\ UNCHANGED <<facilities, facil, filtered_facilities>>
    /\ UNCHANGED exceptFilter

\* lines 336-337: no category set, or an empty one
FilterFacilities_Skip ==
    /\ fpc = "loop"
    /\ facil <= Len(facilities)
    /\ Validates(CurrentFacility)
    /\ NoCategories(CurrentFacility)
    /\ facil' = facil + 1
    /\ UNCHANGED <<facilities, filtered_facilities, fpc, ferror>>
    /\ UNCHANGED exceptFilter

\* lines 341-347: a campsite or group camp facility is kept
FilterFacilities_Keep ==
    /\ fpc = "loop"
    /\ facil <= Len(facilities)
    /\ Validates(CurrentFacility)
    /\ ~NoCategories(CurrentFacility)
    /\ IsReservable(CurrentFacility)
    /\ filtered_facilities' = Append(filtered_facilities, CurrentFacility)
    /\ facil' = facil + 1
    /\ UNCHANGED <<facilities, fpc, ferror>>
    /\ UNCHANGED exceptFilter

\* lines 341-347: any other facility is passed over
FilterFacilities_Drop ==
    /\ fpc = "loop"
    /\ facil <= Len(facilities)
    /\ Validates(CurrentFacility)
    /\ ~NoCategories(CurrentFacility)
    /\ ~IsReservable(CurrentFacility)
    /\ facil' = facil + 1
    /\ UNCHANGED <<facilities, filtered_facilities, fpc, ferror>>
    /\ UNCHANGED exceptFilter

\* line 349
FilterFacilities_Return ==
    /\ fpc = "loop"
    /\ facil > Len(facilities)
    /\ fpc' = "returned"
    /\ UNCHANGED <<facilities, facil, filtered_facilities, ferror>>
    /\ UNCHANGED exceptFilter

\* the entry's category set is present, non-empty and holds a bookable category
HasBookableCategory(entry) ==
    /\ ~IsNone(entry.resourceCategoryIds)
    /\ Len(Value(entry.resourceCategoryIds)) > 0
    /\ \E i \in 1..Len(Value(entry.resourceCategoryIds)) :
          Value(entry.resourceCategoryIds)[i] \in {CampsiteCategory, GroupCampCategory}

BookableEntries == SelectSeq(facilities, HasBookableCategory)

\* C7: the filter returns exactly the entries whose category set is present,
\* non-empty and holds the campsite or the group camp category, and at no
\* point holds an entry with an empty, absent or unbookable category set.
C7_KeepsExactlyBookableFacilities ==
    /\ fpc = "returned" =>
          filtered_facilities =
              [i \in 1..Len(BookableEntries) |-> ResourceLocation(BookableEntries[i], 1)]
    /\ \A i \in 1..Len(filtered_facilities) :
          /\ ~IsNone(filtered_facilities[i].ResourceCategories)
          /\ \E j \in 1..Len(Value(filtered_facilities[i].ResourceCategories)) :
                Value(filtered_facilities[i].ResourceCategories)[j]
                    \in {CampsiteCategory, GroupCampCategory}

\* an entry with an empty category set dropped, a group camp entry kept
C7_Witness ==
    /\ fpc = "returned"
    /\ Len(facilities) = 2
    /\ facilities[1].resourceCategoryIds = Some(<<>>)
    /\ facilities[2].resourceCategoryIds = Some(<<-2147483647, GroupCampCategory>>)
    /\ Len(filtered_facilities) = 1
    /\ filtered_facilities[1].ResourceCategories = facilities[2].resourceCategoryIds

InitFilter ==
    /\ facilities \in SeqsUpTo(RawFacilities, MaxFacilities)
    /\ facil = 1
    /\ filtered_facilities = <<>>
    /\ fpc = "loop"
    /\ ferror = "none"
    /\ IdleExceptFilter

NextFilter ==
    \/ FilterFacilities_Invalid
    \/ FilterFacilities_Skip
    \/ FilterFacilities_Keep
    \/ FilterFacilities_Drop
    \/ FilterFacilities_Return

SpecFilter == InitFilter /\ [][NextFilter]_vars

(***************************************************************************)
(* SearchGoingToCamp.__init__ and _get_searchable_campgrounds              *)
(***************************************************************************)
\* str(n), for n >= 0
RECURSIVE IntToStr(_)
IntToStr(n) ==
    IF n < 10 THEN <<DigitChars[n + 1]>>
    ELSE IntToStr(n \div 10) \o <<DigitChars[(n % 10) + 1]>>

\* lines 32-43: the ids of RECREATION_AREAS
RecreationAreaIds == {1, 2}

CampgroundFacility(facility_id, map_id, rec_area_id) ==
    [facility_id |-> facility_id, map_id |-> map_id, recreation_area_id |-> rec_area_id]

\* what find_facilities_per_recreation_area may find in an area
AreaFacilities(rec_area_id) ==
    IF rec_area_id = 1
    THEN {<<>>, <<CampgroundFacility(100, 10, 1)>>,
          <<CampgroundFacility(100, 10, 1), CampgroundFacility(101, 11, 1)>>}
    ELSE {<<>>, <<CampgroundFacility(200, 20, 2)>>}

\* the arguments a caller passes
RecreationAreaArgs == {Absent, Some(<<>>), Some(<<1>>), Some(<<1, 2>>)}
CampsiteArgs == {Absent, Some(<<>>), Some(<<7>>)}
CampgroundArgs ==
    {Absent, Some(<<>>), Some(<<<<"1", "0", "0">>>>), Some(<<<<"1", "0", "1">>, <<"2", "0", "0">>>>)}
EquipmentArgs ==
    { [name |-> <<"t", "r", "a", "i", "l", "e", "r">>, length |-> Some(20)],
      [name |-> <<"t", "r", "a", "i", "l", "e", "r">>, length |-> Some(0)],
      [name |-> <<"r", "v", "/", "t", "r", "a", "i", "l", "e", "r">>, length |-> Some(25)] }

\* the LIST_EQUIPMENT answer of the recreation areas
AreaEquipmentListing ==
    << [name |-> <<"1", " ", "T", "e", "n", "t">>, id |-> 5],
       [name |-> <<"R", "V", "/", "T", "r", "a", "i", "l", "e", "r", " ", "u", "p", " ", "t", "o", " ", "2", "0", "'">>, id |-> 6],
       [name |-> <<"R", "V", "/", "T", "r", "a", "i", "l", "e", "r", " ", "o", "v", "e", "r", " ", "4", "0", "'">>, id |-> 7] >>

\* x in [(), [], None] / x in [[], None]
IsEmptyOrNone(o) == IF IsNone(o) THEN TRUE ELSE Len(Value(o)) = 0

\* lines 172-176: the guard of _get_searchable_campgrounds
NeedsCampgroundAndArea ==
    IsEmptyOrNone(campground_object) \/ IsEmptyOrNone(recreation_area)

\* lines 64-73: the assertion of __init__
AnySelector ==
    \/ ~IsEmptyOrNone(campsites)
    \/ ~IsEmptyOrNone(campground_object)
    \/ ~IsNone(recreation_area)

\* lines 140-148: the facilities of every recreation area, area after area,
\* given what each area's lookup found
FindCampgrounds(found) ==
    LET areas == Value(recreation_area)
        acc[i \in 0..Len(areas)] ==
            IF i = 0 THEN <<>> ELSE acc[i - 1] \o found[areas[i]]
    IN  acc[Len(areas)]

\* lines 203-212: keep the facilities whose id, as a string, was asked for
GetCampgroundsByCampgroundId(found) ==
    LET Asked(facility) == InList(IntToStr(facility.facility_id), Value(campground_object))
    IN  SelectSeq(FindCampgrounds(found), Asked)

\* lines 188-201
GetCampgroundsByRecreationAreaId(found) ==
    IF ~IsEmptyOrNone(campground_object)
    THEN GetCampgroundsByCampgroundId(found)
    ELSE FindCampgrounds(found)

PathByRecreationAreaId ==
    IF ~IsEmptyOrNone(campground_object) THEN "campground" ELSE "area"

\* the campsite-to-facility lookup: the facility that holds the campsite
GetCampgroundsByCampsiteId(found) ==
    LET all == FindCampgrounds(found)
    IN  IF Len(all) = 0 THEN <<>> ELSE <<all[1]>>

\* lines 64-73: no selector at all
Init_AssertionError ==
    /\ cpc = "assert"
    /\ ~AnySelector
    /\ cpc' = "raised"
    /\ cerror' = "AssertionError"
    /\ UNCHANGED <<recreation_area, campsites, campground_object, equipment_arg,
                   self_campgrounds, self_equipment, path, proc>>
    /\ UNCHANGED exceptInit

\* lines 64-74
Init_AssertionHolds ==
    /\ cpc = "assert"
    /\ AnySelector
    /\ cpc' = "campgrounds"
    /\ UNCHANGED <<recreation_area, campsites, campground_object, equipment_arg,
                   self_campgrounds, self_equipment, path, proc, cerror>>
    /\ UNCHANGED exceptInit

\* lines 172-180: exit(1) without a campground and a recreation area
GetSearchableCampgrounds_Exit ==
    /\ cpc = "campgrounds"
    /\ NeedsCampgroundAndArea
    /\ cpc' = "underspecified"
    /\ proc' = "exited"
    /\ UNCHANGED <<recreation_area, campsites, campground_object, equipment_arg,
                   self_campgrounds, self_equipment, path, cerror>>
    /\ UNCHANGED exceptInit

\* lines 182-184: explicit campsite ids
GetSearchableCampgrounds_ByCampsiteId ==
    /\ cpc = "campgrounds"
    /\ ~NeedsCampgroundAndArea
    /\ ~IsEmptyOrNone(campsites)
    /\ \E found \in [RecreationAreaIds -> UNION {AreaFacilities(a) : a \in RecreationAreaIds}] :
          /\ \A a \in RecreationAreaIds : found[a] \in AreaFacilities(a)
          /\ self_campgrounds' = Some(GetCampgroundsByCampsiteId(found))
    /\ path' = "campsite"
    /\ cpc' = "equipment"
    /\ UNCHANGED <<recreation_area, campsites, campground_object, equipment_arg,
                   self_equipment, proc, cerror>>
    /\ UNCHANGED exceptInit

\* line 186: no campsite ids
GetSearchableCampgrounds_ByRecreationAreaId ==
    /\ cpc = "campgrounds"
    /\ ~NeedsCampgroundAndArea
    /\ IsEmptyOrNone(campsites)
    /\ \E found \in [RecreationAreaIds -> UNION {AreaFacilities(a) : a \in RecreationAreaIds}] :
          /\ \A a \in RecreationAreaIds : found[a] \in AreaFacilities(a)
          /\ self_campgrounds' = Some(GetCampgroundsByRecreationAreaId(found))
    /\ path' = PathByRecreationAreaId
    /\ cpc' = "equipment"
    /\ UNCHANGED <<recreation_area, campsites, campground_object, equipment_arg,
                   self_equipment, proc, cerror>>
    /\ UNCHANGED exceptInit

EquipmentCategoryFound ==
    GetEquipmentCategory(ListEquipmentCategories(AreaEquipmentListing),
                         equipment_arg.name, Value(equipment_arg.length))

\* line 76: a category matches
Init_EquipmentCategory ==
    /\ cpc = "equipment"
    /\ EquipmentCategoryFound.kind = "return"
    /\ self_equipment' = Some(EquipmentCategoryFound.category_id)
    /\ cpc' = "constructed"
    /\ UNCHANGED <<recreation_area, campsites, campground_object, equipment_arg,
                   self_campgrounds, path, proc, cerror>>
    /\ UNCHANGED exceptInit

\* line 76 and lines 96-97: no category matches: exit(1)
Init_NoEquipmentCategory ==
    /\ cpc = "equipment"
    /\ EquipmentCategoryFound.kind = "exit"
    /\ cpc' = "no_equipment_category"
    /\ proc' = "exited"
    /\ UNCHANGED <<recreation_area, campsites, campground_object, equipment_arg,
                   self_campgrounds, self_equipment, path, cerror>>
    /\ UNCHANGED exceptInit

\* C6: when no equipment category matches, only the search of that recreation
\* area is given up: the process keeps running.
C6_NoMatchKeepsProcessRunning ==
    cpc = "no_equipment_category" => proc = "running"

\* the facility lookup the inputs call for, in priority order
ExpectedPath ==
    IF ~IsEmptyOrNone(campsites) THEN "campsite"
    ELSE IF ~IsEmptyOrNone(campground_object) THEN "campground"
    ELSE "area"

\* _get_searchable_campgrounds is over
CampgroundsResolved == cpc \notin {"idle", "assert", "campgrounds"}

\* C8: every input that supplies a selector resolves the facility set by the
\* one lookup its inputs call for, in priority order, and yields a facility list.
C8_OnePathByPriority ==
    (CampgroundsResolved /\ AnySelector) =>
        /\ path = ExpectedPath
        /\ ~IsNone(self_campgrounds)

InitInit ==
    /\ recreation_area \in RecreationAreaArgs
    /\ campsites \in CampsiteArgs
    /\ campground_object \in CampgroundArgs
    /\ equipment_arg \in EquipmentArgs
    /\ self_campgrounds = Absent
    /\ self_equipment = Absent
    /\ path = "none"
    /\ cpc = "assert"
    /\ proc = "running"
    /\ cerror = "none"
    /\ IdleExceptInit

NextInit ==
    \/ Init_AssertionError
    \/ Init_AssertionHolds
    \/ GetSearchableCampgrounds_Exit
    \/ GetSearchableCampgrounds_ByCampsiteId
    \/ GetSearchableCampgrounds_ByRecreationAreaId
    \/ Init_EquipmentCategory
    \/ Init_NoEquipmentCategory

SpecInit == InitInit /\ [][NextInit]_vars

(***************************************************************************)
(* list_site_availability and get_all_campsites.  Dates are day numbers,   *)
(* day 0 a Monday, so that date.weekday() is the day number modulo 7.      *)
(***************************************************************************)
\* _find_matching_resources as the recursion it is, over the MAPDATA answers
\* md of an acyclic map graph
RECURSIVE FindMatchingResources(_, _)
FindMatchingResources(md, mapId) ==
    LET results == md[mapId]
        links == results.mapLinkAvailabilities
        availabilities[i \in 0..Len(links)] ==
            IF i = 0 THEN results.resourceAvailabilities
            ELSE DictUpdate(availabilities[i - 1], FindMatchingResources(md, links[i]))
    IN  availabilities[Len(links)]

\* line 456: availability_details[0]["availability"] == 0
IsAvailable(availability_details) == availability_details[1] = 0

\* lines 454-459: the ids of the resources found available, in dict order
ListSiteAvailability(resources_found) ==
    LET Free(item) == IsAvailable(item.value)
        free == SelectSeq(resources_found, Free)
    IN  [i \in 1..Len(free) |-> free[i].key]

\* the longest window searched, in nights
MaxNights == 2

\* the windows searched: from a Monday, a Thursday or a Friday
SearchWindows ==
    {[start_date |-> s, end_date |-> s + n] : s \in {0, 3, 4}, n \in 1..MaxNights}

\* the availability entries of one resource: one status code per night
DailyEntries(n) == {e \in SeqsUpTo({0, 1}, n) : Len(e) = n}

\* the dicts that list some of the resources ids, each with n entries
AvailabilityDicts(ids, n) ==
    LET given == {g \in [ids -> {Absent} \cup {Some(e) : e \in DailyEntries(n)}] : TRUE}
        ListedIds(g) == Ascending({r \in ids : ~IsNone(g[r])})
    IN  {[i \in 1..Len(ListedIds(g)) |-> [key |-> ListedIds(g)[i], value |-> Value(g[ListedIds(g)[i]])]] :
            g \in given}

\* the MAPDATA answers for a campground's map m and its child map m + 1:
\* the map alone with resources 1 and 2, or resource 1 on the map and
\* resource 2 on its child
MapDataAnswers(m, n) ==
    {[x \in {m, m + 1} |-> IF x = m THEN MapAnswer(d, <<>>) ELSE MapAnswer(<<>>, <<>>)] :
        d \in AvailabilityDicts({1, 2}, n)}
    \cup
    {[x \in {m, m + 1} |-> IF x = m THEN MapAnswer(d, <<m + 1>>) ELSE MapAnswer(c, <<>>)] :
        d \in AvailabilityDicts({1}, n), c \in AvailabilityDicts({2}, n)}

(***************************************************************************)
(* get_site_details: the attribute definitions are fetched on the first    *)
(* call and kept on the provider.                                          *)
(***************************************************************************)
StrServiceType == <<"S", "e", "r", "v", "i", "c", "e", " ", "T", "y", "p", "e">>
StrSiteLength == <<"S", "i", "t", "e", " ", "L", "e", "n", "g", "t", "h">>
StrPads == <<"P", "a", "d", "s">>
StrBasic == <<"B", "a", "s", "i", "c">>
StrElectric == <<"E", "l", "e", "c", "t", "r", "i", "c">>
StrWalkIn == <<"W", "a", "l", "k", "-", "i", "n">>
StrFullHookup == <<"F", "u", "l", "l", " ", "h", "o", "o", "k", "u", "p">>

\* one entry of the ATTRIBUTE_DETAILS answer
AttributeDetail(displayName, values) ==
    [localizedValues |-> <<[displayName |-> displayName]>>, values |-> values]

\* one entry of "values" in an attribute definition
EnumDetail(enumValue, displayName) ==
    [enumValue |-> enumValue, localizedValues |-> <<[displayName |-> displayName]>>]

\* the ATTRIBUTE_DETAILS answer of a recreation area, keyed by definition id
AttributeDetailsAnswer(rec_area_id) ==
    IF rec_area_id = 1
    THEN << [key |-> IntToStr(7),
             value |-> AttributeDetail(StrServiceType,
                          <<EnumDetail(0, StrBasic), EnumDetail(1, StrElectric)>>)],
            [key |-> IntToStr(8), value |-> AttributeDetail(StrSiteLength, <<>>)] >>
    ELSE << [key |-> IntToStr(7),
             value |-> AttributeDetail(StrServiceType,
                          <<EnumDetail(0, StrWalkIn), EnumDetail(1, StrFullHookup)>>)],
            [key |-> IntToStr(9), value |-> AttributeDetail(StrPads, <<>>)] >>

\* one entry of "definedAttributes" in a SITE_DETAILS answer
DefinedAttribute(id, value, values) ==
    [attributeDefinitionId |-> id, value |-> value, values |-> values]

\* the "definedAttributes" of a resource
DefinedAttributes(rec_area_id, resource_id) ==
    IF rec_area_id = 1
    THEN CASE resource_id % 4 = 0 ->
                <<DefinedAttribute(7, Absent, <<1>>), DefinedAttribute(8, Some(30), <<>>)>>
           [] resource_id % 4 = 1 -> <<DefinedAttribute(8, Some(30), <<>>)>>
           [] resource_id % 4 = 2 -> <<DefinedAttribute(7, Absent, <<0>>)>>
           [] OTHER -> <<DefinedAttribute(7, Absent, <<0, 1>>)>>
    ELSE IF resource_id % 2 = 0
         THEN <<DefinedAttribute(7, Absent, <<1>>)>>
         ELSE <<DefinedAttribute(7, Absent, <<0>>), DefinedAttribute(9, Some(4), <<>>)>>

\* the SITE_DETAILS answer for a resource id
SiteDetailsAnswer(rec_area_id, resource_id) ==
    [resourceId |-> resource_id,
     localizedValues |-> <<[name |-> <<"Site", resource_id>>]>>,
     minCapacity |-> 1,
     maxCapacity |-> resource_id,
     definedAttributes |-> DefinedAttributes(rec_area_id, resource_id)]

\* ",".join(parts)
RECURSIVE Join(_)
Join(parts) ==
    IF parts = <<>> THEN <<>>
    ELSE IF Len(parts) = 1 THEN parts[1]
    ELSE parts[1] \o <<",">> \o Join(Tail(parts))

\* lines 172-184: the display names of the enum values of a multi-value
\* attribute, value after value, each against every enum detail in turn
RECURSIVE EnumDisplayNames(_, _)
EnumDisplayNames(attr_values, enum_details) ==
    IF attr_values = <<>> THEN <<>>
    ELSE LET Matches(enum_detail) == enum_detail.enumValue = Head(attr_values)
             matching == SelectSeq(enum_details, Matches)
         IN  [i \in 1..Len(matching) |-> matching[i].localizedValues[1].displayName]
             \o EnumDisplayNames(Tail(attr_values), enum_details)

\* lines 168-186: the text stored for one attribute
AttributeText(attribute, attribute_detail) ==
    IF (IF IsNone(attribute.value) THEN TRUE ELSE Value(attribute.value) = 0)
    THEN Join(EnumDisplayNames(attribute.values, attribute_detail.values))
    ELSE Join(<<IntToStr(Value(attribute.value))>>)

\* lines 160-188: site_attributes, or the KeyError of a definition id the
\* definitions do not hold
RECURSIVE SiteAttributes(_, _, _)
SiteAttributes(definitions, attributes, site_attributes) ==
    IF attributes = <<>> THEN [kind |-> "ok", site_attributes |-> site_attributes]
    ELSE IF IntToStr(Head(attributes).attributeDefinitionId) \notin Keys(definitions)
    THEN [kind |-> "KeyError", site_attributes |-> site_attributes]
    ELSE LET attribute_detail ==
                 DictGet(definitions, IntToStr(Head(attributes).attributeDefinitionId))
             attribute_name == attribute_detail.localizedValues[1].displayName
         IN  SiteAttributes(definitions, Tail(attributes),
                            DictSet(site_attributes, attribute_name,
                                    AttributeText(Head(attributes), attribute_detail)))

\* lines 151-155: the definitions the call decodes with
AttributeDetailsUsed(cache, rec_area_id) ==
    IF IsNone(cache) THEN AttributeDetailsAnswer(rec_area_id) ELSE Value(cache)

\* lines 150-191: the details of the resource asked for, decoded with the
\* definitions the provider holds or fetches
GetSiteDetails(cache, rec_area_id, resource_id) ==
    LET answer == SiteDetailsAnswer(rec_area_id, resource_id)
        decoded == SiteAttributes(AttributeDetailsUsed(cache, rec_area_id),
                                  answer.definedAttributes, EmptyDict)
    IN  [kind |-> decoded.kind,
         details |-> [resourceId |-> answer.resourceId,
                      localizedValues |-> answer.localizedValues,
                      minCapacity |-> answer.minCapacity,
                      maxCapacity |-> answer.maxCapacity,
                      definedAttributes |-> answer.definedAttributes,
                      site_attributes |-> decoded.site_attributes]]

\* the most calls made on one provider
MaxCalls == 4

\* the resource ids asked about
DetailIds == {1, 2, 3, 4, 100, 101, 200, 201}

\* lines 150-191, the call returns
GetSiteDetails_Return ==
    /\ dcalls < MaxCalls
    /\ \E rec_area_id \in RecreationAreaIds, resource_id \in DetailIds :
          /\ GetSiteDetails(attribute_details, rec_area_id, resource_id).kind = "ok"
          /\ attribute_details' = Some(AttributeDetailsUsed(attribute_details, rec_area_id))
          /\ site_request' = Some([rec_area_id |-> rec_area_id, resource_id |-> resource_id])
          /\ site_details' =
                Some(GetSiteDetails(attribute_details, rec_area_id, resource_id).details)
    /\ dcalls' = dcalls + 1
    /\ derror' = "none"
    /\ UNCHANGED exceptDetails

\* lines 163-165: a definition id is not among the definitions held
GetSiteDetails_KeyError ==
    /\ dcalls < MaxCalls
    /\ \E rec_area_id \in RecreationAreaIds, resource_id \in DetailIds :
          /\ GetSiteDetails(attribute_details, rec_area_id, resource_id).kind = "KeyError"
          /\ attribute_details' = Some(AttributeDetailsUsed(attribute_details, rec_area_id))
          /\ site_request' = Some([rec_area_id |-> rec_area_id, resource_id |-> resource_id])
    /\ site_details' = Absent
    /\ dcalls' = dcalls + 1
    /\ derror' = "KeyError"
    /\ UNCHANGED exceptDetails

\* C15: after any sequence of get_site_details calls on one provider, the
\* attribute definitions used to decode a site of recreation area A are the
\* ones fetched for A, never the ones cached from a call for another area.
C15_DefinitionsOfTheAreaAsked ==
    ~IsNone(site_request) =>
        /\ attribute_details = Some(AttributeDetailsAnswer(Value(site_request).rec_area_id))
        /\ ~IsNone(site_details) =>
              Value(site_details) =
                  GetSiteDetails(Absent, Value(site_request).rec_area_id,
                                 Value(site_request).resource_id).details

InitSiteDetails ==
    /\ attribute_details = Absent
    /\ site_request = Absent
    /\ site_details = Absent
    /\ dcalls = 0
    /\ derror = "none"
    /\ IdleExceptDetails

NextSiteDetails ==
    \/ GetSiteDetails_Return
    \/ GetSiteDetails_KeyError

SpecSiteDetails == InitSiteDetails /\ [][NextSiteDetails]_vars

(***************************************************************************)
(* get_all_campsites, continued                                            *)
(***************************************************************************)
\* lines 214-225
GetReservationLink(party_size, start_date, end_date, camp_area, resource_location_id, equipment_id, sub_equipment_id) ==
    [mapId |-> camp_area.map_id, startDate |-> start_date, endDate |-> end_date,
     equipmentId |-> equipment_id, subEquipmentId |-> sub_equipment_id,
     partySize |-> party_size, resourceLocationId |-> resource_location_id]

\* lines 116-159: the record appended for one available site
AvailableCampsite(camp, window, rec_areas, sub_equipment_id, details) ==
    [campsite_id |-> details.resourceId,
         campsite_site_name |-> details.localizedValues[1].name,
         campsite_type |-> DictGet(details.site_attributes, StrServiceType),
         booking_date |-> window.start_date,
         booking_end_date |-> window.end_date,
         booking_nights |-> window.end_date - window.start_date,
         campsite_occupancy |-> <<details.minCapacity, details.maxCapacity>>,
         recreation_area_id |-> rec_areas[1],
         facility_id |-> camp.facility_id,
         booking_url |-> GetReservationLink(1, window.start_date, window.end_date,
                                            camp, camp.facility_id, -32768,
                                            sub_equipment_id)]

\* the constructed objects get_all_campsites runs on
ConstructedSearches ==
    { [rec_area_ids |-> <<1>>, campgrounds |-> <<>>],
      [rec_area_ids |-> <<1>>, campgrounds |-> <<CampgroundFacility(100, 10, 1)>>],
      [rec_area_ids |-> <<1>>,
       campgrounds |-> <<CampgroundFacility(100, 10, 1), CampgroundFacility(101, 12, 1)>>],
      [rec_area_ids |-> <<1, 2>>,
       campgrounds |-> <<CampgroundFacility(100, 10, 1), CampgroundFacility(200, 20, 2)>>] }

Nights(window) == window.end_date - window.start_date

\* lines 107-114: the resolver is run for the next campground, the list of
\* records starts anew
GetAllCampsites_ListSiteAvailability ==
    /\ spc = "campground"
    /\ campground <= Len(campgrounds)
    /\ \E md \in MapDataAnswers(campgrounds[campground].map_id, Nights(search_window)) :
          LET resources_found == FindMatchingResources(md, campgrounds[campground].map_id)
          IN  /\ site_resources' = resources_found
              /\ sites' = ListSiteAvailability(resources_found)
    /\ available_sites' = <<>>
    /\ site' = 1
    /\ spc' = "site"
    /\ UNCHANGED <<rec_area_ids, campgrounds, search_window, weekends_only, nights,
                   campground, returned, serror>>
    /\ UNCHANGED attribute_details
    /\ UNCHANGED exceptSearch

\* lines 116-118: the call of get_site_details made for every site
SiteDetailsCall ==
    GetSiteDetails(attribute_details, rec_area_ids[1], campgrounds[campground].facility_id)

\* lines 116-118 and 143: the call returns and the details name a service type
SiteDetailsUsable ==
    IF SiteDetailsCall.kind = "ok"
    THEN StrServiceType \in Keys(SiteDetailsCall.details.site_attributes)
    ELSE FALSE

\* lines 115-159: a record is appended for the next available site
GetAllCampsites_AppendSite ==
    /\ spc = "site"
    /\ site <= Len(sites)
    /\ SiteDetailsUsable
    /\ attribute_details' =
          Some(AttributeDetailsUsed(attribute_details, rec_area_ids[1]))
    /\ available_sites' =
          Append(available_sites,
                 AvailableCampsite(campgrounds[campground], search_window,
                                   rec_area_ids, Value(self_equipment),
                                   SiteDetailsCall.details))
    /\ site' = site + 1
    /\ UNCHANGED <<rec_area_ids, campgrounds, search_window, weekends_only, nights,
                   campground, site_resources, sites, returned, spc, serror>>
    /\ UNCHANGED exceptSearch

\* lines 163-165 of the provider, line 143 of the search: the definitions
\* lack an id of the site, or the site has no "Service Type" attribute
GetAllCampsites_KeyError ==
    /\ spc = "site"
    /\ site <= Len(sites)
    /\ ~SiteDetailsUsable
    /\ attribute_details' =
          Some(AttributeDetailsUsed(attribute_details, rec_area_ids[1]))
    /\ serror' = "KeyError"
    /\ spc' = "raised"
    /\ UNCHANGED <<rec_area_ids, campgrounds, search_window, weekends_only, nights,
                   campground, site_resources, sites, site, available_sites, returned>>
    /\ UNCHANGED exceptSearch

\* line 115: the sites of this campground are done
GetAllCampsites_NextCampground ==
    /\ spc = "site"
    /\ site > Len(sites)
    /\ campground' = campground + 1
    /\ spc' = "campground"
    /\ UNCHANGED <<rec_area_ids, campgrounds, search_window, weekends_only, nights,
                   site_resources, sites, site, available_sites, returned, serror>>
    /\ UNCHANGED attribute_details
    /\ UNCHANGED exceptSearch

\* line 161
GetAllCampsites_Return ==
    /\ spc = "campground"
    /\ campground > Len(campgrounds)
    /\ Len(campgrounds) > 0
    /\ returned' = Some(available_sites)
    /\ spc' = "returned"
    /\ UNCHANGED <<rec_area_ids, campgrounds, search_window, weekends_only, nights,
                   campground, site_resources, sites, site, available_sites, serror>>
    /\ UNCHANGED attribute_details
    /\ UNCHANGED exceptSearch

\* line 161 with no campground: available_sites was never assigned
GetAllCampsites_UnboundLocalError ==
    /\ spc = "campground"
    /\ campground > Len(campgrounds)
    /\ Len(campgrounds) = 0
    /\ serror' = "UnboundLocalError"
    /\ spc' = "raised"
    /\ UNCHANGED <<rec_area_ids, campgrounds, search_window, weekends_only, nights,
                   campground, site_resources, sites, site, available_sites, returned>>
    /\ UNCHANGED attribute_details
    /\ UNCHANGED exceptSearch

\* C9: a resource is reported available for the window iff every per-day
\* entry of the resource has status code 0.
C9_AvailableIffEveryDayFree ==
    spc = "site" =>
        \A i \in 1..Len(site_resources) :
            InList(site_resources[i].key, sites)
                <=> (\A d \in 1..Len(site_resources[i].value) : site_resources[i].value[d] = 0)

\* date.weekday() is 4 on a Friday and 5 on a Saturday
HasWeekendNight(window) ==
    \E d \in window.start_date..(window.end_date - 1) : d % 7 \in {4, 5}

\* C10: with weekends_only set, no record is emitted for a window whose
\* nights include neither a Friday nor a Saturday.
C10_WeekendsOnlyDropsWeekdayWindows ==
    (spc # "idle" /\ weekends_only /\ ~HasWeekendNight(search_window)) =>
        /\ available_sites = <<>>
        /\ (~IsNone(returned) => Value(returned) = <<>>)

\* the records emitted so far by the running call, and the ones it returned
EmittedRecords ==
    IF IsNone(returned) THEN available_sites ELSE Value(returned)

\* C11: in every emitted record, nights equals end_date - start_date in days
\* and is at least the minimum night count the caller requested; no record
\* is emitted for a window shorter than that minimum.
C11_NightsAtLeastRequestedMinimum ==
    \A i \in 1..Len(EmittedRecords) :
        /\ EmittedRecords[i].booking_nights
              = EmittedRecords[i].booking_end_date - EmittedRecords[i].booking_date
        /\ EmittedRecords[i].booking_nights >= nights

\* every record emitted before a step is still emitted after it
KeepsEmittedRecords ==
    \A i \in 1..Len(available_sites) :
        /\ i <= Len(available_sites')
        /\ available_sites'[i] = available_sites[i]

\* C12: the result holds the records of ALL facilities of the set: records
\* found for an earlier facility are still there after later facilities are
\* processed, and an empty facility set yields an empty result, not an error.
C12_ResultCoversAllFacilities ==
    /\ [][KeepsEmittedRecords]_vars
    /\ [](campgrounds = <<>> => serror = "none")

\* the unit detail of an available resource of the current campground
DetailsOfResource(resource_id) ==
    GetSiteDetails(Absent, campgrounds[campground].recreation_area_id, resource_id).details

\* the record carries the id, name, type and occupancy of the resource
RecordIsOfResource(record, resource_id) ==
    /\ record.campsite_id = resource_id
    /\ record.campsite_site_name = DetailsOfResource(resource_id).localizedValues[1].name
    /\ record.campsite_occupancy =
          <<DetailsOfResource(resource_id).minCapacity,
            DetailsOfResource(resource_id).maxCapacity>>
    /\ IF StrServiceType \in Keys(DetailsOfResource(resource_id).site_attributes)
       THEN record.campsite_type =
                DictGet(DetailsOfResource(resource_id).site_attributes, StrServiceType)
       ELSE TRUE

\* C13: the unit detail is fetched for the available resource: the record's
\* campsite_id, site name, type and occupancy range are those of the resource
\* id the resolver returned, so two distinct available resources of one
\* facility produce records with distinct campsite ids.
C13_RecordDescribesAvailableResource ==
    spc = "site" =>
        /\ \A i \in 1..Len(available_sites) :
              RecordIsOfResource(available_sites[i], sites[i])
        /\ \A i, j \in 1..Len(available_sites) :
              i # j => available_sites[i].campsite_id # available_sites[j].campsite_id

Init ==
    /\ \E c \in ConstructedSearches :
          /\ rec_area_ids = c.rec_area_ids
          /\ campgrounds = c.campgrounds
    /\ search_window \in SearchWindows
    /\ weekends_only \in BOOLEAN
    /\ nights \in 1..MaxNights
    /\ campground = 1
    /\ site_resources = <<>>
    /\ sites = <<>>
    /\ site = 1
    /\ available_sites = <<>>
    /\ returned = Absent
    /\ spc = "campground"
    /\ serror = "none"
    /\ IdleResolver /\ IdleEquipment /\ IdleFilter /\ IdleNested /\ IdleDetails
    \* the constructor has run: self.equipment holds the matching category id
    /\ recreation_area = Some(rec_area_ids)
    /\ campsites = Absent
    /\ campground_object = Absent
    /\ equipment_arg = <<>>
    /\ self_campgrounds = Some(campgrounds)
    /\ self_equipment \in {Some(6)}
    /\ path = "none"
    /\ cpc = "constructed"
    /\ proc = "running"
    /\ cerror = "none"

Next ==
    \/ GetAllCampsites_ListSiteAvailability
    \/ GetAllCampsites_AppendSite
    \/ GetAllCampsites_KeyError
    \/ GetAllCampsites_NextCampground
    \/ GetAllCampsites_Return
    \/ GetAllCampsites_UnboundLocalError

Spec == Init /\ [][Next]_vars

(***************************************************************************)
(* fetch_nested_key                                                        *)
(***************************************************************************)
VInt(n) == NestedValue("int", <<>>, n, <<>>)
VStr(str) == NestedValue("str", <<>>, 0, str)
VList(elems) ==
    NestedValue("list", [i \in 1..Len(elems) |-> [key |-> <<>>, value |-> elems[i]]], 0, <<>>)
VDict(items) == NestedValue("dict", items, 0, <<>>)

\* _element[key] for a dict: the value stored under a str key
SubscriptDict(d, k) ==
    IF k.t = "str" /\ \E i \in 1..Len(d.items) : d.items[i].key = k.s
    THEN [kind |-> "value",
          value |-> d.items[CHOOSE i \in 1..Len(d.items) : d.items[i].key = k.s].value]
    ELSE [kind |-> "KeyError", value |-> VNone]

\* the position, from 1, an int subscript names in a sequence of length len
\* (a negative subscript counts from the end), 0 when it is out of range
SubscriptPosition(len, n) ==
    IF 0 <= n /\ n < len THEN n + 1
    ELSE IF n < 0 /\ -len <= n THEN len + n + 1
    ELSE 0

\* _element[key] for a list
SubscriptList(l, k) ==
    IF k.t # "int" THEN [kind |-> "TypeError", value |-> VNone]
    ELSE IF SubscriptPosition(Len(l.items), k.n) = 0
    THEN [kind |-> "IndexError", value |-> VNone]
    ELSE [kind |-> "value", value |-> l.items[SubscriptPosition(Len(l.items), k.n)].value]

\* _element[key] for a str
SubscriptStr(str, k) ==
    IF k.t # "int" THEN [kind |-> "TypeError", value |-> VNone]
    ELSE IF SubscriptPosition(Len(str.s), k.n) = 0
    THEN [kind |-> "IndexError", value |-> VNone]
    ELSE [kind |-> "value", value |-> VStr(<<str.s[SubscriptPosition(Len(str.s), k.n)]>>)]

\* line 485: _element[key], or the exception it raises
Subscript(e, k) ==
    IF e.t = "dict" THEN SubscriptDict(e, k)
    ELSE IF e.t = "list" THEN SubscriptList(e, k)
    ELSE IF e.t = "str" THEN SubscriptStr(e, k)
    ELSE [kind |-> "TypeError", value |-> VNone]

\* the longest path of keys
MaxKeys == 3

\* the keys and indices a path is made of
PathKeys == {VStr(<<"a">>), VStr(<<"b">>), VInt(0), VInt(1), VInt(-1)}

\* scalars, containers of scalars, containers of containers
Scalars == {VNone, VInt(7), VStr(<<"x", "y">>)}
DictsOver(values) ==
    {VDict(<<>>)}
    \cup {VDict(<<[key |-> <<"a">>, value |-> v]>>) : v \in values}
    \cup {VDict(<<[key |-> <<"a">>, value |-> v], [key |-> <<"b">>, value |-> w]>>) :
            v \in values, w \in {VInt(7)}}
ListsOver(values) ==
    {VList(<<>>)}
    \cup {VList(<<v>>) : v \in values}
    \cup {VList(<<v, w>>) : v \in values, w \in {VInt(7)}}
Level1 == Scalars \cup DictsOver(Scalars) \cup ListsOver(Scalars)
Level2 == Level1 \cup DictsOver(Level1) \cup ListsOver(Level1)

\* lines 476-477
FetchNestedKey_ObjAttributeError ==
    /\ npc = "call"
    /\ obj.t \notin {"dict", "list"}
    /\ nerror' = "AttributeError"
    /\ npc' = "raised"
    /\ UNCHANGED <<obj, keys, element, key_i, nresult>>
    /\ UNCHANGED exceptNested

\* lines 478-481
FetchNestedKey_KeysAttributeError ==
    /\ npc = "call"
    /\ obj.t \in {"dict", "list"}
    /\ Len(keys) = 0
    /\ nerror' = "AttributeError"
    /\ npc' = "raised"
    /\ UNCHANGED <<obj, keys, element, key_i, nresult>>
    /\ UNCHANGED exceptNested

\* line 483
FetchNestedKey_Enter ==
    /\ npc = "call"
    /\ obj.t \in {"dict", "list"}
    /\ Len(keys) > 0
    /\ element' = obj
    /\ key_i' = 1
    /\ npc' = "loop"
    /\ UNCHANGED <<obj, keys, nresult, nerror>>
    /\ UNCHANGED exceptNested

\* lines 484-486: the subscript yields a value
FetchNestedKey_Subscript ==
    /\ npc = "loop"
    /\ key_i <= Len(keys)
    /\ Subscript(element, keys[key_i]).kind = "value"
    /\ element' = Subscript(element, keys[key_i]).value
    /\ key_i' = key_i + 1
    /\ UNCHANGED <<obj, keys, npc, nresult, nerror>>
    /\ UNCHANGED exceptNested

\* lines 487-488: KeyError and TypeError are caught
FetchNestedKey_ReturnNone ==
    /\ npc = "loop"
    /\ key_i <= Len(keys)
    /\ Subscript(element, keys[key_i]).kind \in {"KeyError", "TypeError"}
    /\ nresult' = Some(VNone)
    /\ npc' = "returned"
    /\ UNCHANGED <<obj, keys, element, key_i, nerror>>
    /\ UNCHANGED exceptNested

\* line 487: IndexError is not among the exceptions caught
FetchNestedKey_IndexError ==
    /\ npc = "loop"
    /\ key_i <= Len(keys)
    /\ Subscript(element, keys[key_i]).kind = "IndexError"
    /\ nerror' = "IndexError"
    /\ npc' = "raised"
    /\ UNCHANGED <<obj, keys, element, key_i, nresult>>
    /\ UNCHANGED exceptNested

\* line 490
FetchNestedKey_Return ==
    /\ npc = "loop"
    /\ key_i > Len(keys)
    /\ nresult' = Some(element)
    /\ npc' = "returned"
    /\ UNCHANGED <<obj, keys, element, key_i, nerror>>
    /\ UNCHANGED exceptNested

\* the value at the path, None when a segment is absent or of the wrong shape
RECURSIVE ValueAtPath(_, _)
ValueAtPath(v, segments) ==
    IF segments = <<>> THEN v
    ELSE IF Subscript(v, Head(segments)).kind # "value" THEN VNone
    ELSE ValueAtPath(Subscript(v, Head(segments)).value, Tail(segments))

\* C14: fetch_nested_key never throws: it returns the value at the path, or
\* the not-found value when a segment is absent (missing key, index out of
\* range) or of the wrong shape.
C14_NeverThrows ==
    /\ npc # "raised"
    /\ npc = "returned" => nresult = Some(ValueAtPath(obj, keys))

InitNestedKey ==
    /\ obj \in Level2
    /\ keys \in SeqsUpTo(PathKeys, MaxKeys)
    /\ element = VNone
    /\ key_i = 0
    /\ npc = "call"
    /\ nresult = Absent
    /\ nerror = "none"
    /\ IdleExceptNested

NextNestedKey ==
    \/ FetchNestedKey_ObjAttributeError
    \/ FetchNestedKey_KeysAttributeError
    \/ FetchNestedKey_Enter
    \/ FetchNestedKey_Subscript
    \/ FetchNestedKey_ReturnNone
    \/ FetchNestedKey_IndexError
    \/ FetchNestedKey_Return

SpecNestedKey == InitNestedKey /\ [][NextNestedKey]_vars

====
